---- MODULE Spec2Model ----
(***************************************************************************)
(* Question/answer HTTP service: request handlers (handlers/mod.rs), the   *)
(* answers data access object (persistance/answers_dao.rs), the questions  *)
(* data access object and the relational store behind them.                *)
(*                                                                         *)
(* Strings that the code inspects character by character (identifiers) or  *)
(* tests for emptiness (title, description, content) are sequences of      *)
(* one-character strings.  A Uuid value is a sequence of 32 nibbles.       *)
(* Every handler issues at most one statement against the store and        *)
(* validates only its own request, so a handler is one atomic step at the  *)
(* point of its store round trip; concurrent requests are interleavings of *)
(* these steps.  The outcome of a request stays in `last` until its        *)
(* response has been written to the client (Respond).                      *)
(***************************************************************************)
EXTENDS Integers, Sequences, FiniteSets, TLC

VARIABLES questions, answers, next_q, next_a, clock, created_at_type, on_delete,
          last, acked

vars == <<questions, answers, next_q, next_a, clock, created_at_type, on_delete,
          last, acked>>

(* Bound of the model: the number of rows ever inserted, in both tables. *)
MaxInserts == 3

(***************************************************************************)
(* Uuid::parse_str and Uuid's Display (uuid crate, as used by the handlers *)
(* and the DAO).                                                           *)
(***************************************************************************)
HexLower == <<"0","1","2","3","4","5","6","7","8","9","a","b","c","d","e","f">>
HexUpper == <<"0","1","2","3","4","5","6","7","8","9","A","B","C","D","E","F">>

HexChars == {HexLower[i] : i \in 1..16} \cup {HexUpper[i] : i \in 1..16}

IsHex(c) == c \in HexChars

HexVal(c) == (CHOOSE i \in 1..16 : HexLower[i] = c \/ HexUpper[i] = c) - 1

(* A character of a text is written as a one-character string, or, when  *)
(* it cannot be written in a string of this module (the grave accent, a   *)
(* control character, a character above U+00FF), as U+ followed by its    *)
(* code point in four to six hexadecimal digits.  AsciiChars are the      *)
(* ASCII characters that are written as themselves.                       *)
AsciiChars ==
    {" ", "!", "\"", "#", "$", "%", "&", "'", "(", ")", "*", "+",
     ",", "-", ".", "/", "0", "1", "2", "3", "4", "5", "6", "7",
     "8", "9", ":", ";", "<", "=", ">", "?", "@", "A", "B", "C",
     "D", "E", "F", "G", "H", "I", "J", "K", "L", "M", "N", "O",
     "P", "Q", "R", "S", "T", "U", "V", "W", "X", "Y", "Z", "[",
     "\\", "]", "^", "_", "a", "b", "c", "d", "e", "f", "g", "h",
     "i", "j", "k", "l", "m", "n", "o", "p", "q", "r", "s", "t",
     "u", "v", "w", "x", "y", "z", "{", "|", "}", "~"}

IsCodePointName(c) == Len(c) >= 6 /\ SubSeq(c, 1, 2) = "U+"

RECURSIVE HexNumber(_)
HexNumber(digits) ==
    IF Len(digits) = 0 THEN 0
    ELSE 16 * HexNumber(SubSeq(digits, 1, Len(digits) - 1))
            + HexVal(SubSeq(digits, Len(digits), Len(digits)))

CodePoint(c) == HexNumber(SubSeq(c, 3, Len(c)))

(* char::len_utf8: the number of bytes of the character in UTF-8.         *)
(* Lengths and positions in parse_str and into_err are counted in bytes.  *)
Utf8Len(c) ==
    IF IsCodePointName(c)
    THEN LET code == CodePoint(c)
         IN IF code < 128 THEN 1
            ELSE IF code < 2048 THEN 2
            ELSE IF code < 65536 THEN 3
            ELSE 4
    ELSE IF c \in AsciiChars THEN 1
    ELSE 2

RECURSIVE SumOfUtf8Len(_, _)
SumOfUtf8Len(s, positions) ==
    IF positions = {} THEN 0
    ELSE LET i == CHOOSE j \in positions : TRUE
         IN Utf8Len(s[i]) + SumOfUtf8Len(s, positions \ {i})

(* str::len: the characters of AsciiChars take one byte each *)
ByteLen(s) ==
    LET others == {i \in 1..Len(s) : s[i] \notin AsciiChars}
    IN (Len(s) - Cardinality(others)) + SumOfUtf8Len(s, others)

IsAscii(s) == \A i \in 1..Len(s) : Utf8Len(s[i]) = 1

(* A text is a sequence of fragments whose concatenation it is; a number  *)
(* appears in it as its decimal digits.                                   *)
RECURSIVE Decimal(_)
Decimal(n) ==
    IF n < 10 THEN <<HexLower[n + 1]>>
    ELSE Decimal(n \div 10) \o <<HexLower[(n % 10) + 1]>>

(* InvalidUuid::into_err followed by Display of the Error: the text is    *)
(* scanned again, whatever made the parse fail.  A wrapping {..} or a     *)
(* leading urn:uuid: is set aside; the first character that is neither a  *)
(* hexadecimal digit nor a hyphen is reported with the position of its    *)
(* first byte in the whole text; otherwise the number of groups,          *)
(* otherwise the first group of the wrong length.  GraveAccent is the     *)
(* character that quotes parts of the message.                            *)
GraveAccent == "U+0060"

BLOCK_STARTS == <<0, 9, 14, 19, 24>>
GROUP_LENGTHS == <<8, 4, 4, 4, 12>>

IsBraced(s) == Len(s) >= 2 /\ s[1] = "{" /\ s[Len(s)] = "}"
HasUrnPrefix(s) == Len(s) >= 9 /\ SubSeq(s, 1, 9) = <<"u","r","n",":","u","u","i","d",":">>

CharError(c, index) ==
    <<"invalid character: expected an optional prefix of ", GraveAccent, "urn:uuid:",
      GraveAccent, " followed by [0-9a-fA-F-], found ", GraveAccent, c, GraveAccent,
      " at ">> \o Decimal(index)

SimpleLengthError(len) ==
    <<"invalid length: expected length 32 for simple format, found ">> \o Decimal(len)

GroupCountError(count) ==
    <<"invalid group count: expected 5, found ">> \o Decimal(count)

GroupLengthError(group, len) ==
    <<"invalid group length in group ">> \o Decimal(group) \o <<": expected ">>
        \o Decimal(GROUP_LENGTHS[group + 1]) \o <<", found ">> \o Decimal(len)

into_err(s) ==
    LET simple == ~IsBraced(s) /\ ~HasUrnPrefix(s)
        offset == IF IsBraced(s) THEN 1 ELSE IF HasUrnPrefix(s) THEN 9 ELSE 0
        uuid_str == IF IsBraced(s) THEN SubSeq(s, 2, Len(s) - 1)
                    ELSE IF HasUrnPrefix(s) THEN SubSeq(s, 10, Len(s))
                    ELSE s
        bad == {i \in 1..Len(uuid_str) : ~IsHex(uuid_str[i]) /\ uuid_str[i] # "-"}
        hyphens == {i \in 1..Len(uuid_str) : uuid_str[i] = "-"}
        hyphen_count == Cardinality(hyphens)
        (* index, counted from 0, of the hyphen that ends group i *)
        group_bounds(i) ==
            (CHOOSE h \in hyphens : Cardinality({j \in hyphens : j < h}) = i) - 1
        wrong == {i \in 0..3 : group_bounds(i) # BLOCK_STARTS[i + 2] - 1}
    IN IF bad # {}
       THEN LET first == CHOOSE i \in bad : \A j \in bad : i <= j
            IN CharError(uuid_str[first],
                         ByteLen(SubSeq(uuid_str, 1, first - 1)) + offset + 1)
       ELSE IF hyphen_count = 0 /\ simple THEN SimpleLengthError(ByteLen(s))
       ELSE IF hyphen_count # 4 THEN GroupCountError(hyphen_count + 1)
       ELSE IF wrong # {}
       THEN LET i == CHOOSE g \in wrong : \A j \in wrong : g <= j
            IN GroupLengthError(i, group_bounds(i) - BLOCK_STARTS[i + 1])
       ELSE GroupLengthError(4, ByteLen(s) - BLOCK_STARTS[5])

ParseOk(u) == [ok |-> TRUE, uuid |-> u, err |-> <<>>]
ParseErr(s) == [ok |-> FALSE, uuid |-> <<>>, err |-> into_err(s)]

(* 32 bytes, each a hexadecimal digit, no separators *)
parse_simple(s) ==
    IF ByteLen(s) = 32 /\ \A i \in 1..Len(s) : IsHex(s[i])
    THEN ParseOk([i \in 1..32 |-> HexVal(s[i])])
    ELSE ParseErr(s)

HyphenAt == {9, 14, 19, 24}

(* position in the 36-character text of the k-th hexadecimal digit *)
HexPos(k) ==
    k + (IF k > 8 THEN 1 ELSE 0) + (IF k > 12 THEN 1 ELSE 0)
      + (IF k > 16 THEN 1 ELSE 0) + (IF k > 20 THEN 1 ELSE 0)

(* 36 bytes: 8-4-4-4-12 hexadecimal digits separated by hyphens; a byte of *)
(* a character that is not ASCII is neither                               *)
parse_hyphenated(s) ==
    IF ByteLen(s) # 36 THEN ParseErr(s)
    ELSE IF ~IsAscii(s) THEN ParseErr(s)
    ELSE IF \E i \in HyphenAt : s[i] # "-" THEN ParseErr(s)
    ELSE IF \E k \in 1..32 : ~IsHex(s[HexPos(k)]) THEN ParseErr(s)
    ELSE ParseOk([k \in 1..32 |-> HexVal(s[HexPos(k)])])

UrnPrefix == <<"u","r","n",":","u","u","i","d",":">>

(* the length of the text in bytes and its wrapping select the parser;    *)
(* the error of a failed parse describes the text that parser was given   *)
parse_str(s) ==
    LET len == ByteLen(s)
    IN IF len = 32 THEN parse_simple(s)
       ELSE IF len = 36 THEN parse_hyphenated(s)
       ELSE IF len = 38 /\ s[1] = "{" /\ s[Len(s)] = "}"
            THEN parse_hyphenated(SubSeq(s, 2, Len(s) - 1))
       ELSE IF len = 45 /\ Len(s) >= 9 /\ SubSeq(s, 1, 9) = UrnPrefix
            THEN parse_hyphenated(SubSeq(s, 10, Len(s)))
       ELSE ParseErr(s)

(* Display of a Uuid: lower-case, hyphenated *)
uuid_to_string(u) ==
    [i \in 1..36 |->
        IF i \in HyphenAt THEN "-"
        ELSE HexLower[u[i - (IF i > 9 THEN 1 ELSE 0) - (IF i > 14 THEN 1 ELSE 0)
                          - (IF i > 19 THEN 1 ELSE 0) - (IF i > 24 THEN 1 ELSE 0)] + 1]]

(***************************************************************************)
(* Timestamps: whole seconds since 1970-01-01 00:00:00.  The type that    *)
(* query! gives created_at is fixed by the build (the column's type and   *)
(* the date-time feature of sqlx), not by these sources; Display of each  *)
(* type the build can select is modelled, and the build's choice is part  *)
(* of the state.                                                          *)
(***************************************************************************)
DateTimeTypes ==
    {"chrono::NaiveDateTime", "chrono::DateTime<Utc>",
     "time::PrimitiveDateTime", "time::OffsetDateTime"}

Digit(n) == HexLower[n + 1]

TwoDigits(n) == <<Digit(n \div 10), Digit(n % 10)>>

FourDigits(n) == TwoDigits((n \div 100) % 100) \o TwoDigits(n % 100)

(* year, month and day of the day that is `days` days after 1970-01-01 *)
CivilFromDays(days) ==
    LET z == days + 719468
        era == z \div 146097
        doe == z - era * 146097
        yoe == (doe - doe \div 1460 + doe \div 36524 - doe \div 146096) \div 365
        doy == doe - (365 * yoe + yoe \div 4 - yoe \div 100)
        mp == (5 * doy + 2) \div 153
        m == IF mp < 10 THEN mp + 3 ELSE mp - 9
    IN [year |-> yoe + era * 400 + (IF m <= 2 THEN 1 ELSE 0),
        month |-> m,
        day |-> doy - (153 * mp + 2) \div 5 + 1]

DateToString(days) ==
    LET date == CivilFromDays(days)
    IN FourDigits(date.year) \o <<"-">> \o TwoDigits(date.month) \o <<"-">>
        \o TwoDigits(date.day)

(* chrono: HH:MM:SS *)
ChronoTimeToString(secs) ==
    TwoDigits(secs \div 3600) \o <<":">> \o TwoDigits((secs \div 60) % 60)
        \o <<":">> \o TwoDigits(secs % 60)

(* time: the hour without padding, and the fraction of the second *)
TimeTimeToString(secs) ==
    Decimal(secs \div 3600) \o <<":">> \o TwoDigits((secs \div 60) % 60)
        \o <<":">> \o TwoDigits(secs % 60) \o <<".", "0">>

timestamp_to_string(type, t) ==
    LET date == DateToString(t \div 86400) \o <<" ">>
        secs == t % 86400
    IN IF type = "chrono::NaiveDateTime" THEN date \o ChronoTimeToString(secs)
       ELSE IF type = "chrono::DateTime<Utc>"
            THEN date \o ChronoTimeToString(secs) \o <<" ", "U", "T", "C">>
       ELSE IF type = "time::PrimitiveDateTime" THEN date \o TimeTimeToString(secs)
       ELSE date \o TimeTimeToString(secs)
                \o <<" ", "+", "0", "0", ":", "0", "0", ":", "0", "0">>

(***************************************************************************)
(* The relational store: tables questions and answers, rows in heap order. *)
(* gen_random_uuid() is modelled by a counter per table: the k-th          *)
(* identifier a table generates differs from every earlier one.            *)
(***************************************************************************)
GenUuid(kind, k) ==
    [i \in 1..32 |-> IF i = 1 THEN kind
                     ELSE IF i = 13 THEN 4
                     ELSE IF i = 17 THEN 8
                     ELSE IF i = 32 THEN k % 16
                     ELSE IF i = 31 THEN (k \div 16) % 16
                     ELSE 0]

(* the k-th identifier generated for a question and for an answer, and an *)
(* identifier the store never generates                                   *)
QuestionUuid(k) == GenUuid(12, k)
AnswerUuid(k) == GenUuid(13, k)
UnknownUuid == GenUuid(14, 1)

FOREIGN_KEY_VIOLATION == "23503"
QUERY_CANCELED == "57014"

(* a statement's failure: an error of the database with its code, or an  *)
(* error of the connection, which has no code                            *)
DbFailure(code) == [database |-> TRUE, code |-> code]
IoFailure == [database |-> FALSE, code |-> ""]

Faults == {"none", "io", "db"}

FaultError(fault) == IF fault = "io" THEN IoFailure ELSE DbFailure(QUERY_CANCELED)

StoreOk(db, rows) == [ok |-> TRUE, rows |-> rows, error |-> IoFailure, db |-> db]
StoreErr(db, e) == [ok |-> FALSE, rows |-> <<>>, error |-> e, db |-> db]

Range(s) == {s[i] : i \in 1..Len(s)}

(* INSERT INTO questions (title, description) VALUES ($1, $2) RETURNING * *)
InsertQuestion(db, title, description, fault) ==
    IF fault # "none" THEN StoreErr(db, FaultError(fault))
    ELSE LET row == [question_uuid |-> QuestionUuid(db.next_q),
                     title |-> title,
                     description |-> description,
                     created_at |-> db.clock]
         IN StoreOk([db EXCEPT !.questions = Append(@, row),
                               !.next_q = @ + 1,
                               !.clock = @ + 1], <<row>>)

(* SELECT * FROM questions *)
SelectQuestions(db, fault) ==
    IF fault # "none" THEN StoreErr(db, FaultError(fault))
    ELSE StoreOk(db, db.questions)

(* What the foreign key answers.question_uuid -> questions does when a    *)
(* referenced question is deleted is fixed by the schema, not by these    *)
(* sources: the store refuses the statement (NO ACTION, the default, and  *)
(* RESTRICT) or deletes the answers with the question (CASCADE).          *)
(* question_uuid is read as a Uuid, never as an Option, so the column is  *)
(* NOT NULL and the key cannot leave an answer without its question.      *)
OnDeleteRules == {"NO ACTION", "CASCADE"}

(* DELETE FROM questions WHERE question_uuid = $1 *)
DeleteQuestionRow(db, uuid, fault) ==
    IF fault # "none" THEN StoreErr(db, FaultError(fault))
    ELSE IF /\ db.on_delete = "NO ACTION"
            /\ \E q \in Range(db.questions) : q.question_uuid = uuid
            /\ \E a \in Range(db.answers) : a.question_uuid = uuid
         THEN StoreErr(db, DbFailure(FOREIGN_KEY_VIOLATION))
    ELSE StoreOk([db EXCEPT
                    !.questions = SelectSeq(@, LAMBDA r : r.question_uuid # uuid),
                    !.answers = IF db.on_delete = "CASCADE"
                                THEN SelectSeq(@, LAMBDA r : r.question_uuid # uuid)
                                ELSE @], <<>>)

(* Mutant: the table has no foreign key *)
InsertAnswer_NoForeignKey(db, uuid, content, fault) ==
    IF fault # "none" THEN StoreErr(db, FaultError(fault))
    ELSE LET row == [answer_uuid |-> AnswerUuid(db.next_a),
                     question_uuid |-> uuid,
                     content |-> content,
                     created_at |-> db.clock]
         IN StoreOk([db EXCEPT !.answers = Append(@, row),
                               !.next_a = @ + 1,
                               !.clock = @ + 1], <<row>>)

(* INSERT INTO answers (question_uuid, content) VALUES ($1, $2) RETURNING * *)
(* with the foreign key answers.question_uuid -> questions.question_uuid    *)
InsertAnswer(db, uuid, content, fault) ==
    IF fault # "none" THEN StoreErr(db, FaultError(fault))
    ELSE IF \A q \in Range(db.questions) : q.question_uuid # uuid
    THEN StoreErr(db, DbFailure(FOREIGN_KEY_VIOLATION))
    ELSE LET row == [answer_uuid |-> AnswerUuid(db.next_a),
                     question_uuid |-> uuid,
                     content |-> content,
                     created_at |-> db.clock]
         IN StoreOk([db EXCEPT !.answers = Append(@, row),
                               !.next_a = @ + 1,
                               !.clock = @ + 1], <<row>>)

(* DELETE FROM answers WHERE answer_uuid = $1 *)
DeleteAnswerRow(db, uuid, fault) ==
    IF fault # "none" THEN StoreErr(db, FaultError(fault))
    ELSE StoreOk([db EXCEPT !.answers =
                      SelectSeq(@, LAMBDA r : r.answer_uuid # uuid)], <<>>)

(* SELECT * FROM answers WHERE question_uuid = $1 *)
SelectAnswers(db, uuid, fault) ==
    IF fault # "none" THEN StoreErr(db, FaultError(fault))
    ELSE StoreOk(db, SelectSeq(db.answers, LAMBDA r : r.question_uuid = uuid))

(***************************************************************************)
(* models: DBError, the payloads and their projections.                    *)
(***************************************************************************)
InvalidUUID(msg) == [kind |-> "InvalidUUID", msg |-> msg]
Other(msg) == [kind |-> "Other", msg |-> msg]
NoError == [kind |-> "", msg |-> <<>>]

(* Display of a DBError: the variant's text followed by its detail *)
DBErrorToString(e) ==
    IF e.kind = "InvalidUUID" THEN <<"Invalid UUID provided: ">> \o e.msg
    ELSE <<"Database error occurred: ">> \o e.msg

(* Display of the store client's error, carried by DBError::Other *)
StoreErrorToString(e) ==
    IF e.database THEN <<"error returned from database">>
    ELSE <<"error communicating with database">>

DaoOk(db, val) == [ok |-> TRUE, val |-> val, err |-> NoError, db |-> db]
DaoErr(db, e) == [ok |-> FALSE, val |-> <<>>, err |-> e, db |-> db]

QuestionDetailOf(type, record) ==
    [question_uuid |-> uuid_to_string(record.question_uuid),
     title |-> record.title,
     description |-> record.description,
     created_at |-> timestamp_to_string(type, record.created_at)]

AnswerDetailOf(type, record) ==
    [answer_uuid |-> uuid_to_string(record.answer_uuid),
     question_uuid |-> uuid_to_string(record.question_uuid),
     content |-> record.content,
     created_at |-> timestamp_to_string(type, record.created_at)]

QuestionDetailsOf(type, records) ==
    [i \in 1..Len(records) |-> QuestionDetailOf(type, records[i])]

AnswerDetailsOf(type, records) ==
    [i \in 1..Len(records) |-> AnswerDetailOf(type, records[i])]

(***************************************************************************)
(* Questions data access.                                                  *)
(***************************************************************************)
QuestionsDao_create_question(db, question, fault) ==
    LET s == InsertQuestion(db, question.title, question.description, fault)
    IN IF ~s.ok THEN DaoErr(db, Other(StoreErrorToString(s.error)))
       ELSE DaoOk(s.db, <<QuestionDetailOf(db.created_at_type, s.rows[1])>>)

QuestionsDao_get_questions(db, fault) ==
    LET s == SelectQuestions(db, fault)
    IN IF ~s.ok THEN DaoErr(db, Other(StoreErrorToString(s.error)))
       ELSE DaoOk(s.db, QuestionDetailsOf(db.created_at_type, s.rows))

QuestionsDao_delete_question(db, question_uuid, fault) ==
    LET p == parse_str(question_uuid)
    IN IF ~p.ok THEN DaoErr(db, InvalidUUID(p.err))
       ELSE LET s == DeleteQuestionRow(db, p.uuid, fault)
            IN IF ~s.ok THEN DaoErr(db, Other(StoreErrorToString(s.error)))
               ELSE DaoOk(s.db, <<>>)

(***************************************************************************)
(* Answers data access (AnswersDaoImpl).                                   *)
(***************************************************************************)
(* Mutant: the foreign-key code is not inspected *)
InsertErrorToDBError_NoCodeCheck(e) ==
    Other(StoreErrorToString(e))

(* the map_err closure of create_answer: a database error whose code is   *)
(* the foreign-key violation becomes InvalidUUID, any other error Other   *)
InsertErrorToDBError(e) ==
    IF e.database /\ e.code = FOREIGN_KEY_VIOLATION
    THEN InvalidUUID(<<"Question not found">>)
    ELSE Other(StoreErrorToString(e))

AnswersDao_create_answer(db, answer, fault) ==
    LET p == parse_str(answer.question_uuid)
    IN IF ~p.ok THEN DaoErr(db, InvalidUUID(p.err))
       ELSE LET s == InsertAnswer(db, p.uuid, answer.content, fault)
            IN IF ~s.ok THEN DaoErr(db, InsertErrorToDBError(s.error))
               ELSE DaoOk(s.db, <<AnswerDetailOf(db.created_at_type, s.rows[1])>>)

(* Mutant: a delete that matched no row is an error *)
AnswersDao_delete_answer_RowRequired(db, answer_uuid, fault) ==
    LET p == parse_str(answer_uuid)
    IN IF ~p.ok THEN DaoErr(db, InvalidUUID(p.err))
       ELSE LET s == DeleteAnswerRow(db, p.uuid, fault)
            IN IF ~s.ok THEN DaoErr(db, Other(StoreErrorToString(s.error)))
               ELSE IF s.db = db THEN DaoErr(db, Other(<<"no rows affected">>))
               ELSE DaoOk(s.db, <<>>)

AnswersDao_delete_answer(db, answer_uuid, fault) ==
    LET p == parse_str(answer_uuid)
    IN IF ~p.ok THEN DaoErr(db, InvalidUUID(p.err))
       ELSE LET s == DeleteAnswerRow(db, p.uuid, fault)
            IN IF ~s.ok THEN DaoErr(db, Other(StoreErrorToString(s.error)))
               ELSE DaoOk(s.db, <<>>)

(* Mutant: the query has no WHERE clause *)
AnswersDao_get_answers_Unfiltered(db, question_uuid, fault) ==
    LET p == parse_str(question_uuid)
    IN IF ~p.ok THEN DaoErr(db, InvalidUUID(p.err))
       ELSE IF fault # "none" THEN DaoErr(db, Other(StoreErrorToString(FaultError(fault))))
       ELSE DaoOk(db, AnswerDetailsOf(db.created_at_type, db.answers))

AnswersDao_get_answers(db, question_uuid, fault) ==
    LET p == parse_str(question_uuid)
    IN IF ~p.ok THEN DaoErr(db, InvalidUUID(p.err))
       ELSE LET s == SelectAnswers(db, p.uuid, fault)
            IN IF ~s.ok THEN DaoErr(db, Other(StoreErrorToString(s.error)))
               ELSE DaoOk(s.db, AnswerDetailsOf(db.created_at_type, s.rows))

(***************************************************************************)
(* Request handlers.  A handler's outcome is its HTTP response, the trace  *)
(* of its Data Access call (none when it returned before delegating) and   *)
(* the store after the call.                                               *)
(***************************************************************************)
BadRequest(msg) == [variant |-> "BadRequest", msg |-> msg]
InternalError(msg) == [variant |-> "InternalError", msg |-> msg]

(* impl IntoResponse for HandlerError *)
into_response(e) ==
    [status |-> IF e.variant = "BadRequest" THEN 400 ELSE 500,
     kind |-> "text", text |-> e.msg, items |-> <<>>]

(* Ok(Json(..)) and Ok(()) *)
OkResponse(kind, items) ==
    [status |-> 200, kind |-> kind, text |-> <<>>, items |-> items]

NoDao == [invoked |-> FALSE, ok |-> FALSE, err |-> NoError]
DaoCall(r) == [invoked |-> TRUE, ok |-> r.ok, err |-> r.err]

Rejected(db, msg) ==
    [resp |-> into_response(BadRequest(<<msg>>)), dao |-> NoDao, db |-> db]

(* Mutant: InvalidUUID from Data Access is answered as a bad request *)
Delegated_InvalidUuidAs400(r, kind) ==
    [resp |-> IF r.ok THEN OkResponse(kind, r.val)
              ELSE IF r.err.kind = "InvalidUUID"
                   THEN into_response(BadRequest(DBErrorToString(r.err)))
              ELSE into_response(InternalError(DBErrorToString(r.err))),
     dao |-> DaoCall(r), db |-> r.db]

Delegated(r, kind) ==
    [resp |-> IF r.ok THEN OkResponse(kind, r.val)
              ELSE into_response(InternalError(DBErrorToString(r.err))),
     dao |-> DaoCall(r), db |-> r.db]

is_empty(s) == Len(s) = 0

(* Mutant: title and description change places in the reply *)
CreateQuestionReply_Swapped(r) ==
    IF r.ok
    THEN [r EXCEPT !.val = <<[question_uuid |-> r.val[1].question_uuid,
                              title |-> r.val[1].description,
                              description |-> r.val[1].title,
                              created_at |-> r.val[1].created_at]>>]
    ELSE r

(* the handler rebuilds the QuestionDetail field by field *)
CreateQuestionReply(r) ==
    IF r.ok
    THEN [r EXCEPT !.val = <<[question_uuid |-> r.val[1].question_uuid,
                              title |-> r.val[1].title,
                              description |-> r.val[1].description,
                              created_at |-> r.val[1].created_at]>>]
    ELSE r

(* Mutant: the description is not checked *)
create_question_DescriptionUnchecked(db, question, fault) ==
    IF is_empty(question.title) THEN Rejected(db, "Title is required")
    ELSE Delegated(CreateQuestionReply(QuestionsDao_create_question(db, question, fault)),
                   "json")

create_question(db, question, fault) ==
    IF is_empty(question.title) THEN Rejected(db, "Title is required")
    ELSE IF is_empty(question.description) THEN Rejected(db, "Description is required")
    ELSE Delegated(CreateQuestionReply(QuestionsDao_create_question(db, question, fault)),
                   "json")

read_questions(db, fault) ==
    Delegated(QuestionsDao_get_questions(db, fault), "json")

delete_question(db, req, fault) ==
    IF is_empty(req.question_uuid) THEN Rejected(db, "Question UUID is required")
    ELSE IF ~parse_str(req.question_uuid).ok THEN Rejected(db, "Invalid question UUID")
    ELSE Delegated(QuestionsDao_delete_question(db, req.question_uuid, fault), "empty")

(* Mutant: the content is not checked *)
create_answer_ContentUnchecked(db, answer, fault) ==
    IF ~parse_str(answer.question_uuid).ok THEN Rejected(db, "Invalid question UUID")
    ELSE Delegated(AnswersDao_create_answer(db, answer, fault), "json")

(* Mutant: the identifier is not validated before delegating *)
create_answer_IdUnchecked(db, answer, fault) ==
    IF is_empty(answer.content) THEN Rejected(db, "Content is required")
    ELSE Delegated(AnswersDao_create_answer(db, answer, fault), "json")

create_answer(db, answer, fault) ==
    IF is_empty(answer.content) THEN Rejected(db, "Content is required")
    ELSE IF ~parse_str(answer.question_uuid).ok THEN Rejected(db, "Invalid question UUID")
    ELSE Delegated(AnswersDao_create_answer(db, answer, fault), "json")

read_answers(db, req, fault) ==
    IF is_empty(req.question_uuid) THEN Rejected(db, "Question UUID is required")
    ELSE IF ~parse_str(req.question_uuid).ok THEN Rejected(db, "Invalid question UUID")
    ELSE Delegated(AnswersDao_get_answers(db, req.question_uuid, fault), "json")

(* Mutant: only the empty identifier is rejected *)
delete_answer_FormatUnchecked(db, req, fault) ==
    IF is_empty(req.answer_uuid) THEN Rejected(db, "Answer UUID is required")
    ELSE Delegated(AnswersDao_delete_answer(db, req.answer_uuid, fault), "empty")

delete_answer(db, req, fault) ==
    IF is_empty(req.answer_uuid) THEN Rejected(db, "Answer UUID is required")
    ELSE IF ~parse_str(req.answer_uuid).ok THEN Rejected(db, "Invalid answer UUID")
    ELSE Delegated(AnswersDao_delete_answer(db, req.answer_uuid, fault), "empty")

(***************************************************************************)
(* Requests.  Identifier texts sent by clients: the canonical text of the   *)
(* first two identifiers the store generates for each table and of one it  *)
(* never generates, other accepted spellings of the first question's and   *)
(* the first answer's identifier, and malformed texts.                     *)
(***************************************************************************)
ToUpper(c) == IF \E i \in 1..16 : HexLower[i] = c
              THEN HexUpper[CHOOSE i \in 1..16 : HexLower[i] = c]
              ELSE c

Upper(s) == [i \in 1..Len(s) |-> ToUpper(s[i])]

Simple(u) == [k \in 1..32 |-> HexLower[u[k] + 1]]

Q1 == QuestionUuid(1)
A1 == AnswerUuid(1)

CanonicalIds ==
    {uuid_to_string(QuestionUuid(k)) : k \in {1, 2}}
        \cup {uuid_to_string(AnswerUuid(k)) : k \in {1, 2}}
        \cup {uuid_to_string(UnknownUuid)}

VariantIds ==
    {Upper(Simple(Q1)),
     <<"{">> \o uuid_to_string(Q1) \o <<"}">>,
     UrnPrefix \o uuid_to_string(Q1),
     Upper(uuid_to_string(A1))}

MalformedIds ==
    {<<>>,
     <<"n","o","t","-","a","-","u","u","i","d">>,
     [uuid_to_string(Q1) EXCEPT ![36] = "g"],
     [uuid_to_string(Q1) EXCEPT ![9] = "0"],
     <<"[">> \o uuid_to_string(Q1) \o <<"]">>,
     <<"{">> \o [uuid_to_string(Q1) EXCEPT ![36] = "é"] \o <<"}">>}

IdInputs == CanonicalIds \cup VariantIds \cup MalformedIds

Titles == {<<>>, <<"T">>}
Descriptions == {<<>>, <<"D">>}
Contents == {<<>>, <<"h","i">>}

(***************************************************************************)
(* State: the two tables, the store's identifier counters and clock, the   *)
(* date-time type the build gives created_at and the schema's rule for    *)
(* deleting a referenced question (both chosen once, never changed),      *)
(* the last request with the condition of the store while it was served   *)
(* and its outcome, and the QuestionDetails acknowledged by create_question *)
(* whose question no later delete_question has removed.                    *)
(***************************************************************************)
DB == [questions |-> questions, answers |-> answers,
       next_q |-> next_q, next_a |-> next_a, clock |-> clock,
       created_at_type |-> created_at_type, on_delete |-> on_delete]

NoRequest == [op |-> "none", req |-> <<>>, fault |-> "none",
              resp |-> OkResponse("empty", <<>>), dao |-> NoDao]

Init ==
    /\ questions = <<>>
    /\ answers = <<>>
    /\ next_q = 1
    /\ next_a = 1
    /\ clock = 0
    /\ created_at_type \in DateTimeTypes
    /\ on_delete \in OnDeleteRules
    /\ last = NoRequest
    /\ acked = {}

(* the store after the handler and the record of the request *)
Served(op, req, fault, out) ==
    /\ last.op = "none"
    /\ out.db.clock <= MaxInserts
    /\ questions' = out.db.questions
    /\ answers' = out.db.answers
    /\ next_q' = out.db.next_q
    /\ next_a' = out.db.next_a
    /\ clock' = out.db.clock
    /\ created_at_type' = created_at_type
    /\ on_delete' = on_delete
    /\ last' = [op |-> op, req |-> req, fault |-> fault,
                resp |-> out.resp, dao |-> out.dao]

(* POST /question *)
CreateQuestion ==
    \E title \in Titles, description \in Descriptions, fault \in Faults :
        LET req == [title |-> title, description |-> description]
            out == create_question(DB, req, fault)
        IN /\ Served("create_question", req, fault, out)
           /\ acked' = IF out.resp.status = 200
                       THEN acked \cup Range(out.resp.items)
                       ELSE acked

(* GET /questions *)
ReadQuestions ==
    \E fault \in Faults :
        /\ Served("read_questions", <<>>, fault, read_questions(DB, fault))
        /\ acked' = acked

(* DELETE /question *)
DeleteQuestion ==
    \E id \in IdInputs, fault \in Faults :
        LET req == [question_uuid |-> id]
            out == delete_question(DB, req, fault)
        IN /\ Served("delete_question", req, fault, out)
           /\ acked' = IF out.resp.status = 200
                       THEN {d \in acked :
                                d.question_uuid # uuid_to_string(parse_str(id).uuid)}
                       ELSE acked

(* POST /answer *)
CreateAnswer ==
    \E id \in IdInputs, content \in Contents, fault \in Faults :
        LET req == [question_uuid |-> id, content |-> content]
        IN /\ Served("create_answer", req, fault, create_answer(DB, req, fault))
           /\ acked' = acked

(* GET /answers *)
ReadAnswers ==
    \E id \in IdInputs, fault \in Faults :
        LET req == [question_uuid |-> id]
        IN /\ Served("read_answers", req, fault, read_answers(DB, req, fault))
           /\ acked' = acked

(* DELETE /answer *)
DeleteAnswer ==
    \E id \in IdInputs, fault \in Faults :
        LET req == [answer_uuid |-> id]
        IN /\ Served("delete_answer", req, fault, delete_answer(DB, req, fault))
           /\ acked' = acked

(* the response leaves the server *)
Respond ==
    /\ last.op # "none"
    /\ last' = NoRequest
    /\ UNCHANGED <<questions, answers, next_q, next_a, clock, created_at_type,
                   on_delete, acked>>

Next ==
    \/ CreateQuestion
    \/ ReadQuestions
    \/ DeleteQuestion
    \/ CreateAnswer
    \/ ReadAnswers
    \/ DeleteAnswer
    \/ Respond

Spec == Init /\ [][Next]_vars

(***************************************************************************)
(* Properties.                                                             *)
(***************************************************************************)
QuestionUuids(qs) == {q.question_uuid : q \in Range(qs)}

Store == <<questions, answers, next_q, next_a, clock>>

NotAUuid == <<"n","o","t","-","a","-","u","u","i","d">>

(* C1: a create_question request with an empty title or description, and  *)
(* a create_answer request with an empty content, is answered with 400,   *)
(* makes no Data Access call and leaves both tables as they were.         *)
C1_EmptyFieldRejected ==
    [][(\/ /\ last'.op = "create_question"
           /\ (is_empty(last'.req.title) \/ is_empty(last'.req.description))
        \/ /\ last'.op = "create_answer"
           /\ is_empty(last'.req.content))
       => /\ last'.resp.status = 400
          /\ ~last'.dao.invoked
          /\ Store' = Store]_vars

C1_Witness ==
    /\ last.op = "create_question"
    /\ ~is_empty(last.req.title)
    /\ is_empty(last.req.description)
    /\ last.resp.status = 400
    /\ Len(questions) > 0

(* C2: delete_question, create_answer, read_answers and delete_answer     *)
(* answer a request whose identifier is not the text of a UUID (the empty *)
(* text included) with 400 and make no Data Access call, whatever the     *)
(* other fields of the request are.                                       *)
RequestId(r) ==
    IF r.op = "delete_answer" THEN r.req.answer_uuid ELSE r.req.question_uuid

TakesId(r) ==
    r.op \in {"delete_question", "create_answer", "read_answers", "delete_answer"}

C2_MalformedIdRejected ==
    (TakesId(last) /\ (RequestId(last) \in MalformedIds \/ ~parse_str(RequestId(last)).ok))
        => (last.resp.status = 400 /\ ~last.dao.invoked)

C2_Witness ==
    /\ last.op = "create_answer"
    /\ last.req.question_uuid = NotAUuid
    /\ ~is_empty(last.req.content)
    /\ last.resp.status = 400

(* C3: a create_answer request with a non-empty content and a well-formed *)
(* question_uuid that is the identifier of no question when the insert is *)
(* executed (and the store has no other failure) gets the foreign-key     *)
(* violation: the DAO returns InvalidUUID("Question not found"), the      *)
(* handler answers 500 and no row is added to answers.                    *)
C3_UnknownQuestionIs500 ==
    [][(/\ last'.op = "create_answer"
        /\ ~is_empty(last'.req.content)
        /\ parse_str(last'.req.question_uuid).ok
        /\ parse_str(last'.req.question_uuid).uuid \notin QuestionUuids(questions)
        /\ last'.fault = "none")
       => /\ last'.dao.invoked
          /\ last'.dao.err = InvalidUUID(<<"Question not found">>)
          /\ last'.resp.status = 500
          /\ answers' = answers]_vars

C3_Witness ==
    /\ last.op = "create_answer"
    /\ last.req.question_uuid = uuid_to_string(QuestionUuid(1))
    /\ QuestionUuids(questions) = {QuestionUuid(2)}
    /\ last.fault = "none"
    /\ last.resp.status = 500
    /\ last.dao.err.kind = "InvalidUUID"

(* the store refuses to delete this question: answers reference it and    *)
(* the schema does not cascade                                            *)
DeleteRefused(uuid) ==
    /\ on_delete = "NO ACTION"
    /\ \E a \in Range(answers) : a.question_uuid = uuid

C5_AnswersOfQuestion ==
    (last.op = "read_answers" /\ parse_str(last.req.question_uuid).ok
        /\ last.fault = "none")
    => /\ last.resp.status = 200
       /\ Range(last.resp.items) =
            {AnswerDetailOf(created_at_type, a) : a \in
                {r \in Range(answers) :
                    r.question_uuid = parse_str(last.req.question_uuid).uuid}}
       /\ Len(last.resp.items) = Cardinality(Range(last.resp.items))
       /\ \A d \in Range(last.resp.items) :
            d.question_uuid = uuid_to_string(parse_str(last.req.question_uuid).uuid)

(* a question had two answers, one was deleted, the other is returned *)
C5_Witness ==
    /\ last.op = "read_answers"
    /\ last.resp.status = 200
    /\ Len(last.resp.items) = 1
    /\ Len(answers) = 1
    /\ next_a = 3

(* C6: create_question with a non-empty title and description returns an  *)
(* entry with that title and description, the text of a UUID and a        *)
(* non-empty created_at; until a delete_question removes the question,    *)
(* every read_questions that succeeds returns a sequence containing that  *)
(* same entry.                                                            *)
C6_RoundTrip ==
    /\ (last.op = "create_question" /\ last.resp.status = 200)
        => /\ Len(last.resp.items) = 1
           /\ last.resp.items[1].title = last.req.title
           /\ last.resp.items[1].description = last.req.description
           /\ parse_str(last.resp.items[1].question_uuid).ok
           /\ ~is_empty(last.resp.items[1].created_at)
           /\ last.resp.items[1] \in acked
    /\ (last.op = "read_questions" /\ last.resp.status = 200)
        => acked \subseteq Range(last.resp.items)
    /\ (last.op = "read_questions" /\ last.fault = "none")
        => last.resp.status = 200

C6_Witness ==
    /\ last.op = "read_questions"
    /\ last.resp.status = 200
    /\ Cardinality(acked) = 2
    /\ Len(answers) > 0

C8_ErrorTranslation ==
    /\ last.resp.status \in {200, 400, 500}
    /\ last.resp.status = 400 => ~last.dao.invoked
    /\ (last.dao.invoked /\ ~last.dao.ok)
        => (last.resp.status = 500 /\ last.dao.err.kind \in {"InvalidUUID", "Other"})
    /\ last.resp.status = 500 => (last.dao.invoked /\ ~last.dao.ok)

C8_Witness ==
    /\ last.op = "create_answer"
    /\ last.dao.invoked
    /\ last.dao.err.kind = "InvalidUUID"
    /\ last.resp.status = 500
    /\ last.req.question_uuid = Upper(Simple(Q1))

(* C9: every persisted question has a non-empty title and a non-empty     *)
(* description, every persisted answer a non-empty content.               *)
C9_NonEmptyPersisted ==
    /\ \A q \in Range(questions) : ~is_empty(q.title) /\ ~is_empty(q.description)
    /\ \A a \in Range(answers) : ~is_empty(a.content)

C9_Witness ==
    /\ Len(questions) > 0
    /\ Len(answers) > 0
    /\ last.op = "none"

(* C10: a Data Access call made by a handler never fails on a malformed   *)
(* identifier: the only InvalidUUID a handler receives is create_answer's *)
(* "Question not found"; get_answers and delete_answer called by their    *)
(* handlers fail only with Other.                                         *)
C10_DaoParseBranchUnreachable ==
    /\ (last.dao.invoked /\ last.dao.err.kind = "InvalidUUID")
        => (last.op = "create_answer" /\ last.dao.err.msg = <<"Question not found">>)
    /\ (last.op \in {"read_answers", "delete_answer"} /\ last.dao.invoked /\ ~last.dao.ok)
        => last.dao.err.kind = "Other"
    /\ (TakesId(last) /\ last.dao.invoked) => parse_str(RequestId(last)).ok

C10_Witness ==
    /\ last.op = "create_answer"
    /\ last.req.question_uuid = uuid_to_string(UnknownUuid)
    /\ last.dao.invoked
    /\ last.dao.err = InvalidUUID(<<"Question not found">>)

====
